---- MODULE Spec2Model ----
(***************************************************************************)
(* Model of src/library.py: the Book entity, the Library registry and its  *)
(* JSON persistence.                                                       *)
(*                                                                         *)
(* Python objects live in `heap` (a reference is an index into it): Book   *)
(* defines no __eq__, so `book in self.books.values()` is a test on object *)
(* identity.  A dict is a sequence of [k, v] pairs in insertion order.     *)
(* Strings are sequences of one-character strings.  Dynamically typed      *)
(* attribute values are tagged records (PyNone, PyStr, PyDate).            *)
(*                                                                         *)
(* heap and books are those of the process that is running; sess holds the *)
(* command sessions of src/cli.py: where each of the two processes is in   *)
(* its `with Library(...)` block and the heap and registry of the process  *)
(* that is not running.                                                    *)
(***************************************************************************)
EXTENDS Integers, Sequences, FiniteSets, TLC

VARIABLES heap, books, file, saved, last, sess

vars == <<heap, books, file, saved, last, sess>>

(***************************************************************************)
(* Bounds                                                                  *)
(***************************************************************************)
\* number of Book objects ever allocated (constructed or loaded)
MaxObjects == 2

(***************************************************************************)
(* Python values                                                           *)
(***************************************************************************)
PyNone == [kind |-> "none", s |-> <<>>, ymd |-> <<>>]

PyStr(str) == [kind |-> "str", s |-> str, ymd |-> <<>>]

\* a datetime at midnight, as datetime.strptime(..., '%Y%m%d') builds it
PyDate(date) == [kind |-> "datetime", s |-> <<>>, ymd |-> date]

StrOf(word) == CASE word = "Bob" -> <<"B", "o", "b">>
                 [] word = "Ann" -> <<"A", "n", "n">>
                 [] word = "Herbert" -> <<"H", "e", "r", "b", "e", "r", "t">>
                 [] word = "1953" -> <<"1", "9", "5", "3">>
                 [] word = "20240101" -> <<"2", "0", "2", "4", "0", "1", "0", "1">>
                 [] OTHER -> <<>>

\* the strings the clients search for
SearchStrings == {<<>>, <<"B", "A">>, <<"z">>}

\* `bid=None` in Book.__init__
NoBid == "None"

NoKwargs == [k \in {} |-> PyNone]

\* **kwargs of Book.__init__ (cli.add_book builds them from "-key value")
KwYear == [k \in {"year"} |-> PyStr(StrOf("1953"))]

KwIsLent == [k \in {"is_lent"} |-> TRUE]

KwReturnDate == [k \in {"return_date"} |-> PyStr(StrOf("20240101"))]

\* the calls Book(title, author, bid, **kwargs) the clients make
BookArgs == {[title |-> <<"A", "b">>, author |-> StrOf("Herbert"), bid |-> NoBid,
              kwargs |-> NoKwargs],
             [title |-> <<"b", "a">>, author |-> StrOf("Herbert"), bid |-> "b1",
              kwargs |-> KwYear],
             [title |-> <<"A", "b">>, author |-> StrOf("Herbert"), bid |-> "b1",
              kwargs |-> KwIsLent],
             [title |-> <<"b", "a">>, author |-> StrOf("Herbert"), bid |-> NoBid,
              kwargs |-> KwReturnDate]}

\* the calls lend_book(book, return_date, person) the clients make
LendArgs == {[return_date |-> <<2024, 1, 1>>, person |-> StrOf("Bob")],
             [return_date |-> <<2025, 12, 31>>, person |-> StrOf("Ann")]}

(***************************************************************************)
(* dict: insertion-ordered sequence of [k, v]                              *)
(***************************************************************************)
EmptyDict == <<>>

DictKeys(d) == {d[i].k : i \in 1..Len(d)}

DictValues(d) == [i \in 1..Len(d) |-> d[i].v]

DictHasKey(d, key) == \E i \in 1..Len(d) : d[i].k = key

DictGet(d, key) == d[CHOOSE i \in 1..Len(d) : d[i].k = key].v

\* dict.update({key: value}): an existing key keeps its position
DictUpdate(d, key, value) ==
    IF DictHasKey(d, key)
    THEN [i \in 1..Len(d) |-> IF d[i].k = key THEN [k |-> key, v |-> value] ELSE d[i]]
    ELSE Append(d, [k |-> key, v |-> value])

\* dict.pop(key) on a present key
DictPop(d, key) == SelectSeq(d, LAMBDA e : e.k # key)

\* `x in d.values()` for values compared by identity
InValues(d, value) == \E i \in 1..Len(d) : d[i].v = value

(***************************************************************************)
(* datetime.strftime / datetime.strptime with the format '%Y%m%d'          *)
(***************************************************************************)
DigitVal(c) == CASE c = "0" -> 0 [] c = "1" -> 1 [] c = "2" -> 2 [] c = "3" -> 3
                 [] c = "4" -> 4 [] c = "5" -> 5 [] c = "6" -> 6 [] c = "7" -> 7
                 [] c = "8" -> 8 [] c = "9" -> 9 [] OTHER -> -1

IsDigit(c) == DigitVal(c) >= 0

DigitChar(n) == ToString(n)

\* n written with two digits (%m and %d)
TwoDigits(n) == <<DigitChar(n \div 10), DigitChar(n % 10)>>

\* %Y of a year in 1000..9999
FourDigits(n) == <<DigitChar(n \div 1000), DigitChar((n \div 100) % 10),
                   DigitChar((n \div 10) % 10), DigitChar(n % 10)>>

RECURSIVE NumVal(_)
NumVal(str) == IF Len(str) = 0 THEN 0
               ELSE 10 * NumVal(SubSeq(str, 1, Len(str) - 1)) + DigitVal(str[Len(str)])

AllDigits(str) == \A i \in 1..Len(str) : IsDigit(str[i])

IsLeap(y) == (y % 4 = 0 /\ y % 100 # 0) \/ y % 400 = 0

DaysInMonth(y, m) == IF m = 2 THEN (IF IsLeap(y) THEN 29 ELSE 28)
                     ELSE IF m \in {4, 6, 9, 11} THEN 30 ELSE 31

\* value.strftime('%Y%m%d') of a datetime
strftime(date) == FourDigits(date[1]) \o TwoDigits(date[2]) \o TwoDigits(date[3])

\* the %m alternatives 1[0-2]|0[1-9]|[1-9] and the %d alternatives
\* 3[01]|[12]\d|0[1-9]|[1-9], tried two digits first
MonthOk(str) == AllDigits(str) /\ NumVal(str) \in 1..12 /\ (Len(str) = 1 => str[1] # "0")

DayOk(str) == AllDigits(str) /\ NumVal(str) \in 1..31 /\ (Len(str) = 1 => str[1] # "0")

Splits(str) == {sp \in {<<2, 2>>, <<2, 1>>, <<1, 2>>, <<1, 1>>} :
                  /\ Len(str) = 4 + sp[1] + sp[2]
                  /\ AllDigits(SubSeq(str, 1, 4))
                  /\ MonthOk(SubSeq(str, 5, 4 + sp[1]))
                  /\ DayOk(SubSeq(str, 5 + sp[1], Len(str)))}

\* datetime.strptime(value, '%Y%m%d'): TypeError unless value is a str,
\* ValueError when the string does not match or names no calendar day
strptime(value) ==
    IF value.kind # "str" THEN [err |-> "TypeError", v |-> PyNone]
    ELSE IF Splits(value.s) = {} THEN [err |-> "ValueError", v |-> PyNone]
    ELSE LET sp == CHOOSE x \in Splits(value.s) :
                     \A z \in Splits(value.s) : x[1] >= z[1]
             y == NumVal(SubSeq(value.s, 1, 4))
             m == NumVal(SubSeq(value.s, 5, 4 + sp[1]))
             d == NumVal(SubSeq(value.s, 5 + sp[1], Len(value.s)))
         IN IF y >= 1 /\ d <= DaysInMonth(y, m)
            THEN [err |-> "none", v |-> PyDate(<<y, m, d>>)]
            ELSE [err |-> "ValueError", v |-> PyNone]

(***************************************************************************)
(* Book                                                                    *)
(***************************************************************************)
LendingKeys == {"is_lent", "current_user", "return_date"}

\* attrs overridden by the entries of upd that name a lending attribute,
\* the other entries going to the open-ended attributes (__dict__.update)
DictAttrUpdate(b, upd) ==
    [b EXCEPT !.is_lent = IF "is_lent" \in DOMAIN upd THEN upd["is_lent"] ELSE @,
              !.current_user = IF "current_user" \in DOMAIN upd
                               THEN upd["current_user"] ELSE @,
              !.return_date = IF "return_date" \in DOMAIN upd
                              THEN upd["return_date"] ELSE @,
              !.extra = [k \in (DOMAIN @) \cup (DOMAIN upd \ LendingKeys) |->
                           IF k \in DOMAIN upd THEN upd[k] ELSE @[k]]]

\* Book.__init__(title, author, bid, **kwargs); fresh is str(uuid4())
Book_init(title, author, bid, kwargs, fresh) ==
    DictAttrUpdate([title |-> title, author |-> author,
                    bid |-> IF bid # NoBid THEN bid ELSE fresh,
                    is_lent |-> FALSE, current_user |-> PyNone,
                    return_date |-> PyNone, extra |-> NoKwargs],
                   kwargs)

\* Book.to_dict(): every attribute but bid, return_date through strftime,
\* None when the value has no strftime
to_dict(b) ==
    [title |-> b.title, author |-> b.author, is_lent |-> b.is_lent,
     current_user |-> b.current_user,
     return_date |-> IF b.return_date.kind = "datetime"
                     THEN PyStr(strftime(b.return_date.ymd))
                     ELSE PyNone,
     extra |-> b.extra]

\* from_dict that keeps title and author only
from_dict_defaults(book_dict, bid) ==
    [err |-> "none",
     book |-> Book_init(book_dict.title, book_dict.author, bid, NoKwargs, bid)]

\* Book.from_dict(book_dict, bid): err is "ValueError" when strptime raises it
from_dict(book_dict, bid) ==
    LET parsed == strptime(book_dict.return_date)
        base == Book_init(book_dict.title, book_dict.author, bid, NoKwargs, bid)
    IN [err |-> IF parsed.err = "ValueError" THEN "ValueError" ELSE "none",
        book |-> [base EXCEPT !.is_lent = book_dict.is_lent,
                              !.current_user = book_dict.current_user,
                              !.return_date = parsed.v,
                              !.extra = book_dict.extra]]

(***************************************************************************)
(* Library                                                                 *)
(***************************************************************************)
Refs == 1..Len(heap)

\* what the last call was, on which Book object, and the exception it raised
Called(op, book, err) ==
    [op |-> op, book |-> book, err |-> err, no_warn |-> FALSE,
     return_date |-> <<>>, person |-> <<>>, search_string |-> <<>>,
     result |-> <<>>, pre |-> <<>>, fresh |-> FALSE]

\* the registry as the identifiers and the attributes stored under them
View(bks, hp) == [key \in DictKeys(bks) |-> hp[DictGet(bks, key)]]

\* str.lower() on the letters of the model
LowerChar(c) == CASE c = "A" -> "a" [] c = "B" -> "b" [] c = "Z" -> "z" [] OTHER -> c

lower(str) == [i \in 1..Len(str) |-> LowerChar(str[i])]

\* `sub in str` on two strings
Contains(str, sub) ==
    \E i \in 0..(Len(str) - Len(sub)) :
        \A j \in 1..Len(sub) : str[i + j] = sub[j]

\* the processes that run a command each
Procs == {1, 2}

Other(p) == IF p = 1 THEN 2 ELSE 1

\* two processes about to start, the first one running: pc is the place of
\* each in its command, why the exception its command body ended with, snap
\* the file as its load read it, early whether it loaded before any save,
\* saves the processes in the order of their saves
NoSessions ==
    [run |-> 1, pc |-> <<"new", "new">>, why |-> <<"none", "none">>,
     snap |-> <<EmptyDict, EmptyDict>>, early |-> <<FALSE, FALSE>>,
     saves |-> <<>>, parked |-> [heap |-> <<>>, books |-> EmptyDict]]

Init ==
    /\ heap = <<>>
    /\ books = EmptyDict
    /\ file = EmptyDict
    /\ saved = View(EmptyDict, <<>>)
    /\ last = Called("Library", 0, "none")
    /\ sess = NoSessions

\* str(uuid4()): a string no other call of any process returns
uuid4 == "uuid" \o ToString(sess.run) \o "-" \o ToString(Len(heap) + 1)

\* Book(title, author, bid, **kwargs) called by a client of the module
Construct(title, author, bid, kwargs) ==
    /\ Len(heap) < MaxObjects
    /\ heap' = Append(heap, Book_init(title, author, bid, kwargs, uuid4))
    /\ last' = Called("Book", Len(heap) + 1, "none")
    /\ UNCHANGED <<books, file, saved>>

\* Library(filename)
Library_init ==
    /\ books # EmptyDict
    /\ books' = EmptyDict
    /\ last' = Called("Library", 0, "none")
    /\ UNCHANGED <<heap, file, saved>>

\* the loop of Library.load over the entries of the file, stopping at the
\* first exception
RECURSIVE LoadLoop(_, _, _)
LoadLoop(bks, hp, entries) ==
    IF entries = <<>> THEN [books |-> bks, heap |-> hp, err |-> "none"]
    ELSE LET made == from_dict(entries[1].v, entries[1].k)
         IN IF made.err # "none"
            THEN [books |-> bks, heap |-> hp, err |-> made.err]
            ELSE LoadLoop(DictUpdate(bks, entries[1].k, Len(hp) + 1),
                          Append(hp, made.book), Tail(entries))

load ==
    /\ Len(heap) + Len(file) <= MaxObjects
    /\ LET done == LoadLoop(books, heap, file)
       IN /\ books' = done.books
          /\ heap' = done.heap
          /\ last' = [Called("load", 0, done.err) EXCEPT !.fresh = (books = EmptyDict)]
    /\ UNCHANGED <<file, saved>>

\* what Library.save writes (json.dump keeps str, bool and None as they are)
SaveDict(bks, hp) == [i \in 1..Len(bks) |-> [k |-> bks[i].k, v |-> to_dict(hp[bks[i].v])]]

\* the entries of upd written over those of d
RECURSIVE DictMerge(_, _)
DictMerge(d, upd) ==
    IF upd = <<>> THEN d
    ELSE DictMerge(DictUpdate(d, upd[1].k, upd[1].v), Tail(upd))

\* save that updates the entries of the file and keeps the others
save_merge ==
    /\ file' = DictMerge(file, SaveDict(books, heap))
    /\ saved' = View(books, heap)
    /\ last' = Called("save", 0, "none")
    /\ UNCHANGED <<heap, books>>

save ==
    /\ file' = SaveDict(books, heap)
    /\ saved' = View(books, heap)
    /\ last' = Called("save", 0, "none")
    /\ UNCHANGED <<heap, books>>

\* search_title without search_string.lower()
SearchResult_as_typed(bks, hp, search_string) ==
    SelectSeq(DictValues(bks),
              LAMBDA ref : Contains(lower(hp[ref].title), search_string))

\* the list Library.search_title returns, in the order of self.books
SearchResult(bks, hp, search_string) ==
    SelectSeq(DictValues(bks),
              LAMBDA ref : Contains(lower(hp[ref].title), lower(search_string)))

search_title(search_string) ==
    /\ last' = [Called("search_title", 0, "none") EXCEPT
                  !.search_string = search_string,
                  !.result = SearchResult(books, heap, search_string)]
    /\ UNCHANGED <<heap, books, file, saved>>

\* add_book without the test on membership
add_book_unchecked(book) ==
    /\ books' = DictUpdate(books, heap[book].bid, book)
    /\ last' = Called("add_book", book, "none")
    /\ UNCHANGED <<heap, file, saved>>

add_book(book) ==
    /\ IF InValues(books, book)
       THEN /\ last' = Called("add_book", book, "KeyError")
            /\ UNCHANGED books
       ELSE /\ books' = DictUpdate(books, heap[book].bid, book)
            /\ last' = Called("add_book", book, "none")
    /\ UNCHANGED <<heap, file, saved>>

\* delete_book that removes the entry added last (dict.popitem)
delete_book_popitem(book, no_warn) ==
    /\ IF ~InValues(books, book) /\ ~no_warn
       THEN /\ last' = [Called("delete_book", book, "KeyError") EXCEPT !.no_warn = no_warn]
            /\ UNCHANGED books
       ELSE IF ~DictHasKey(books, heap[book].bid)
       THEN /\ last' = [Called("delete_book", book, "KeyError") EXCEPT !.no_warn = no_warn]
            /\ UNCHANGED books
       ELSE /\ books' = SubSeq(books, 1, Len(books) - 1)
            /\ last' = [Called("delete_book", book, "none") EXCEPT !.no_warn = no_warn]
    /\ UNCHANGED <<heap, file, saved>>

\* delete_book that tests the key and not the Book object
delete_book_by_key(book, no_warn) ==
    /\ IF ~DictHasKey(books, heap[book].bid)
       THEN /\ last' = [Called("delete_book", book, "KeyError") EXCEPT !.no_warn = no_warn]
            /\ UNCHANGED books
       ELSE /\ books' = DictPop(books, heap[book].bid)
            /\ last' = [Called("delete_book", book, "none") EXCEPT !.no_warn = no_warn]
    /\ UNCHANGED <<heap, file, saved>>

delete_book(book, no_warn) ==
    /\ IF ~InValues(books, book) /\ ~no_warn
       THEN /\ last' = [Called("delete_book", book, "KeyError") EXCEPT !.no_warn = no_warn]
            /\ UNCHANGED books
       ELSE IF ~DictHasKey(books, heap[book].bid)
       THEN \* self.books.pop(book.bid) without a default raises KeyError
            /\ last' = [Called("delete_book", book, "KeyError") EXCEPT !.no_warn = no_warn]
            /\ UNCHANGED books
       ELSE /\ books' = DictPop(books, heap[book].bid)
            /\ last' = [Called("delete_book", book, "none") EXCEPT !.no_warn = no_warn]
    /\ UNCHANGED <<heap, file, saved>>

\* last' of a lend_book call
LendCalled(book, return_date, person, err) ==
    [Called("lend_book", book, err) EXCEPT !.return_date = return_date,
                                           !.person = person]

\* lend_book without the test on book.is_lent
lend_book_relend(book, return_date, person) ==
    /\ IF ~InValues(books, book)
       THEN /\ last' = LendCalled(book, return_date, person, "KeyError")
            /\ UNCHANGED heap
       ELSE /\ heap' = [heap EXCEPT ![book].is_lent = TRUE,
                                    ![book].return_date = PyDate(return_date),
                                    ![book].current_user = PyStr(person)]
            /\ last' = [LendCalled(book, return_date, person, "none") EXCEPT
                          !.pre = <<heap[book]>>]
    /\ UNCHANGED <<books, file, saved>>

lend_book(book, return_date, person) ==
    /\ IF ~InValues(books, book) \/ heap[book].is_lent
       THEN /\ last' = LendCalled(book, return_date, person, "KeyError")
            /\ UNCHANGED heap
       ELSE /\ heap' = [heap EXCEPT ![book].is_lent = TRUE,
                                    ![book].return_date = PyDate(return_date),
                                    ![book].current_user = PyStr(person)]
            /\ last' = [LendCalled(book, return_date, person, "none") EXCEPT
                          !.pre = <<heap[book]>>]
    /\ UNCHANGED <<books, file, saved>>

\* return_book without the test on book.is_lent
return_book_unlent(book) ==
    /\ IF ~InValues(books, book)
       THEN /\ last' = Called("return_book", book, "KeyError")
            /\ UNCHANGED heap
       ELSE /\ heap' = [heap EXCEPT ![book].is_lent = FALSE,
                                    ![book].current_user = PyNone,
                                    ![book].return_date = PyNone]
            /\ last' = Called("return_book", book, "none")
    /\ UNCHANGED <<books, file, saved>>

return_book(book) ==
    /\ IF ~InValues(books, book) \/ ~heap[book].is_lent
       THEN /\ last' = Called("return_book", book, "KeyError")
            /\ UNCHANGED heap
       ELSE /\ heap' = [heap EXCEPT ![book].is_lent = FALSE,
                                    ![book].current_user = PyNone,
                                    ![book].return_date = PyNone]
            /\ last' = Called("return_book", book, "none")
    /\ UNCHANGED <<books, file, saved>>

\* the calls of one process on one Library, outside any command session
Next ==
    \/ /\ \E a \in BookArgs : Construct(a.title, a.author, a.bid, a.kwargs)
       /\ UNCHANGED sess
    \/ /\ Library_init
       /\ UNCHANGED sess
    \/ /\ load
       /\ UNCHANGED sess
    \/ /\ save
       /\ UNCHANGED sess
    \/ /\ \E search_string \in SearchStrings : search_title(search_string)
       /\ UNCHANGED sess
    \/ /\ \E book \in Refs : add_book(book)
       /\ UNCHANGED sess
    \/ /\ \E book \in Refs, no_warn \in BOOLEAN : delete_book(book, no_warn)
       /\ UNCHANGED sess
    \/ /\ \E book \in Refs, a \in LendArgs : lend_book(book, a.return_date, a.person)
       /\ UNCHANGED sess
    \/ /\ \E book \in Refs : return_book(book)
       /\ UNCHANGED sess

Spec == Init /\ [][Next]_vars

\* the registry alone, nothing persisted
NextRegistry ==
    \/ /\ \E a \in BookArgs : Construct(a.title, a.author, a.bid, a.kwargs)
       /\ UNCHANGED sess
    \/ /\ \E search_string \in SearchStrings : search_title(search_string)
       /\ UNCHANGED sess
    \/ /\ \E book \in Refs : add_book(book)
       /\ UNCHANGED sess
    \/ /\ \E book \in Refs, no_warn \in BOOLEAN : delete_book(book, no_warn)
       /\ UNCHANGED sess
    \/ /\ \E book \in Refs, a \in LendArgs : lend_book(book, a.return_date, a.person)
       /\ UNCHANGED sess
    \/ /\ \E book \in Refs : return_book(book)
       /\ UNCHANGED sess

SpecRegistry == Init /\ [][NextRegistry]_vars

(***************************************************************************)
(* Command sessions of src/cli.py: each process runs one command,          *)
(* `with Library(get_workinglib()) as library:` around one call            *)
(***************************************************************************)
\* the identifiers the commands are given
Bids == {"b1", "zz"}

\* Books that earlier commands stored: add-book ba Herbert -bid b1 -year 1953,
\* the same lent by lend-book-bid b1 Bob 20240101, add-book Ab Herbert -bid b2
StoredBook == Book_init(<<"b", "a">>, StrOf("Herbert"), "b1", KwYear, "b1")

StoredLent == [StoredBook EXCEPT !.is_lent = TRUE,
                                 !.return_date = PyDate(<<2024, 1, 1>>),
                                 !.current_user = PyStr(StrOf("Bob"))]

StoredPlain == Book_init(<<"A", "b">>, StrOf("Herbert"), "b2", NoKwargs, "b2")

\* the heaps of the Library objects whose save wrote the file the sessions find
StoredHeaps == {<<>>, <<StoredBook>>, <<StoredLent>>, <<StoredLent, StoredPlain>>}

\* the registry of a Library that holds every Book of hp
RegistryOf(hp) == [i \in 1..Len(hp) |-> [k |-> hp[i].bid, v |-> i]]

InitSessions ==
    /\ heap = <<>>
    /\ books = EmptyDict
    /\ \E hp \in StoredHeaps :
          /\ file = SaveDict(RegistryOf(hp), hp)
          /\ saved = View(RegistryOf(hp), hp)
    /\ last = Called("Library", 0, "none")
    /\ sess = NoSessions

\* the running process moves to the place pc with the outcome why
Moved(pc, why) == [sess EXCEPT !.pc[sess.run] = pc, !.why[sess.run] = why]

\* exit(): SystemExit leaves the with block, which runs __exit__
SystemExit(command) ==
    /\ last' = Called(command, 0, "SystemExit")
    /\ sess' = Moved("ran", "SystemExit")
    /\ UNCHANGED <<heap, books, file, saved>>

\* cli.add_book before its with block: _book = Book(title, author, **kwargs)
cli_add_book_Book(title, author, bid, kwargs) ==
    /\ sess.pc[sess.run] = "new"
    /\ Construct(title, author, bid, kwargs)
    /\ sess' = Moved("made", "none")

\* Library(get_workinglib()).__enter__(): load into the new registry
Library_enter ==
    /\ sess.pc[sess.run] \in {"new", "made"}
    /\ load
    /\ sess' = [Moved(IF sess.pc[sess.run] = "made" THEN "adding" ELSE "open", "none")
                  EXCEPT !.snap[sess.run] = file,
                         !.early[sess.run] = (sess.saves = <<>>)]

\* the body of cli.add_book: library.add_book(_book)
cli_add_book ==
    /\ sess.pc[sess.run] = "adding"
    /\ add_book(1)
    /\ sess' = Moved("ran", last'.err)

\* the body of cli.delete_book_bid
cli_delete_book_bid(bid) ==
    /\ sess.pc[sess.run] = "open"
    /\ IF ~DictHasKey(books, bid)
       THEN SystemExit("delete_book_bid")
       ELSE /\ delete_book(DictGet(books, bid), FALSE)
            /\ sess' = Moved("ran", last'.err)

\* the body of cli.lend_book_bid
cli_lend_book_bid(bid, return_date, person) ==
    /\ sess.pc[sess.run] = "open"
    /\ IF ~DictHasKey(books, bid)
       THEN SystemExit("lend_book_bid")
       ELSE /\ lend_book(DictGet(books, bid), return_date, person)
            /\ sess' = Moved("ran", last'.err)

\* the body of cli.return_book_bid
cli_return_book_bid(bid) ==
    /\ sess.pc[sess.run] = "open"
    /\ IF ~DictHasKey(books, bid)
       THEN SystemExit("return_book_bid")
       ELSE /\ return_book(DictGet(books, bid))
            /\ sess' = Moved("ran", last'.err)

\* the body of cli.return_book_name
cli_return_book_name(book_name) ==
    /\ sess.pc[sess.run] = "open"
    /\ LET book_name_search == SearchResult(books, heap, book_name)
       IN IF Len(book_name_search) = 0
          THEN SystemExit("return_book_name")
          ELSE /\ return_book(book_name_search[1])
               /\ sess' = Moved("ran", last'.err)

\* Library.__exit__: save, and the process ends
Library_exit ==
    /\ sess.pc[sess.run] = "ran"
    /\ save
    /\ sess' = [sess EXCEPT !.pc[sess.run] = "closed",
                            !.saves = Append(@, sess.run)]

\* the scheduler runs the other process, which has not ended
Yield ==
    /\ sess.pc[Other(sess.run)] # "closed"
    /\ heap' = sess.parked.heap
    /\ books' = sess.parked.books
    /\ sess' = [sess EXCEPT !.run = Other(sess.run),
                            !.parked = [heap |-> heap, books |-> books]]
    /\ UNCHANGED <<file, saved, last>>

NextSessions ==
    \/ \E a \in BookArgs : cli_add_book_Book(a.title, a.author, a.bid, a.kwargs)
    \/ Library_enter
    \/ cli_add_book
    \/ \E bid \in Bids : cli_delete_book_bid(bid)
    \/ \E bid \in Bids, a \in LendArgs : cli_lend_book_bid(bid, a.return_date, a.person)
    \/ \E bid \in Bids : cli_return_book_bid(bid)
    \/ \E book_name \in SearchStrings : cli_return_book_name(book_name)
    \/ Library_exit
    \/ Yield

SpecSessions == InitSessions /\ [][NextSessions]_vars


(***************************************************************************)
(* Properties                                                              *)
(***************************************************************************)
Registered(book) == InValues(books, book)

\* C1: every Book is lent if and only if it has a current user and a return
\* date, in every state reached by constructing, loading, adding, deleting,
\* lending and returning.
C1_LentIffUserAndDate ==
    \A book \in Refs :
        heap[book].is_lent <=>
            (heap[book].current_user # PyNone /\ heap[book].return_date # PyNone)

\* C2: lend_book on a registered book that is lent raises and keeps the
\* book's is_lent, current_user and return_date; on a registered book that is
\* available it sets is_lent, current_user = person, return_date = the date.
C2_LendBook ==
    [][\A book \in Refs :
         (last'.op = "lend_book" /\ last'.book = book /\ Registered(book)) =>
            IF heap[book].is_lent
            THEN /\ last'.err = "KeyError"
                 /\ heap'[book].is_lent = heap[book].is_lent
                 /\ heap'[book].current_user = heap[book].current_user
                 /\ heap'[book].return_date = heap[book].return_date
            ELSE /\ last'.err = "none"
                 /\ heap'[book].is_lent = TRUE
                 /\ heap'[book].current_user = PyStr(last'.person)
                 /\ heap'[book].return_date = PyDate(last'.return_date)]_vars

\* a second lend_book to another person was refused and the first borrower kept
C2_Witness ==
    /\ last.op = "lend_book" /\ last.err = "KeyError"
    /\ Registered(last.book)
    /\ heap[last.book].is_lent
    /\ heap[last.book].current_user.kind = "str"
    /\ heap[last.book].current_user # PyStr(last.person)
    /\ heap[last.book].return_date # PyDate(last.return_date)

\* C3: return_book on a registered book that is available raises and leaves
\* the book and the registry as they were.
C3_ReturnAvailable ==
    [][\A book \in Refs :
         (/\ last'.op = "return_book" /\ last'.book = book
          /\ Registered(book) /\ ~heap[book].is_lent) =>
            (last'.err = "KeyError" /\ heap' = heap /\ books' = books)]_vars

C3_Witness ==
    /\ last.op = "return_book" /\ last.err = "KeyError"
    /\ Registered(last.book)
    /\ ~heap[last.book].is_lent
    /\ heap[last.book].current_user = PyNone
    /\ heap[last.book].return_date = PyNone

\* C4: add_book of a Book that is already in the registry raises and leaves
\* the registry and that Book as they were; otherwise the Book is stored
\* under the key book.bid.
C4_AddBook ==
    [][\A book \in Refs :
         (last'.op = "add_book" /\ last'.book = book) =>
            IF Registered(book)
            THEN last'.err = "KeyError" /\ books' = books /\ heap' = heap
            ELSE /\ last'.err = "none"
                 /\ DictHasKey(books', heap[book].bid)
                 /\ DictGet(books', heap[book].bid) = book
                 /\ heap' = heap]_vars

\* the registered, lent Book was added again and refused
C4_Witness ==
    /\ last.op = "add_book" /\ last.err = "KeyError"
    /\ Registered(last.book)
    /\ heap[last.book].is_lent
    /\ heap[last.book].current_user.kind = "str"

\* C5: delete_book with no_warn = True on a Book that is not in the registry
\* returns without raising and leaves the registry as it was.
C5_DeleteSuppressed ==
    [][\A book \in Refs :
         (/\ last'.op = "delete_book" /\ last'.book = book /\ last'.no_warn
          /\ ~Registered(book)) =>
            (last'.err = "none" /\ books' = books)]_vars

\* C6: lend_book, return_book and delete_book (no_warn = False) on a Book that
\* is not in the registry raise and change neither the registry nor any Book.
C6_AbsentBook ==
    [][\A book \in Refs :
         (/\ last'.book = book /\ ~Registered(book)
          /\ \/ last'.op \in {"lend_book", "return_book"}
             \/ (last'.op = "delete_book" /\ ~last'.no_warn)) =>
            (last'.err = "KeyError" /\ books' = books /\ heap' = heap)]_vars

\* a lend_book on an unregistered Book whose bid is a key of the registry
C6_Witness ==
    /\ last.op = "lend_book" /\ last.err = "KeyError"
    /\ ~Registered(last.book)
    /\ DictHasKey(books, heap[last.book].bid)
    /\ ~heap[last.book].is_lent
\* C7: save followed by load into a fresh registry gives the same
\* identifiers and under each the same title, author, is_lent, current_user
\* and return_date (saved is the registry as it was when the file was written).
C7_SaveLoadRoundTrip ==
    (last.op = "load" /\ last.fresh) =>
        /\ last.err = "none"
        /\ DictKeys(books) = DOMAIN saved
        /\ \A key \in DictKeys(books) :
             LET loaded == heap[DictGet(books, key)]
             IN /\ loaded.title = saved[key].title
                /\ loaded.author = saved[key].author
                /\ loaded.is_lent = saved[key].is_lent
                /\ loaded.current_user = saved[key].current_user
                /\ loaded.return_date = saved[key].return_date

\* C8: from_dict(to_dict(b), b.bid) equals b attribute by attribute for every
\* Book b, and the dictionary to_dict returns has no bid.
C8_DictRoundTrip ==
    \A book \in Refs :
        LET book_dict == to_dict(heap[book])
            back == from_dict(book_dict, heap[book].bid)
        IN /\ back.err = "none"
           /\ back.book = heap[book]
           /\ "bid" \notin DOMAIN book_dict
           /\ "bid" \notin DOMAIN book_dict.extra

\* C9: a lend_book of a registered available Book followed by its return_book
\* leaves the Book exactly as it was before the lend_book.
C9_LendThenReturn ==
    [][(/\ last.op = "lend_book" /\ last.err = "none"
        /\ last'.op = "return_book" /\ last'.err = "none"
        /\ last'.book = last.book) =>
           heap'[last.book] = last.pre[1]]_vars

\* two characters that differ at most in case
SameLetter(c, d) ==
    \/ c = d
    \/ {c, d} \in {{"a", "A"}, {"b", "B"}, {"z", "Z"}}

\* sub occurs in str when case is ignored
OccursIgnoringCase(str, sub) ==
    \E i \in 0..(Len(str) - Len(sub)) :
        \A j \in 1..Len(sub) : SameLetter(str[i + j], sub[j])

\* C10: search_title returns exactly the registered Books whose title contains
\* the string when case is ignored, each once (all of them for the empty
\* string, none when no title contains it), and changes no Book and no entry
\* of the registry.
C10_SearchTitle ==
    [][last'.op = "search_title" =>
         LET found == last'.result
             hits == {found[i] : i \in 1..Len(found)}
             all == {books[i].v : i \in 1..Len(books)}
         IN /\ hits = {book \in all :
                         OccursIgnoringCase(heap[book].title, last'.search_string)}
            /\ Cardinality(hits) = Len(found)
            /\ (last'.search_string = <<>> => hits = all)
            /\ heap' = heap
            /\ books' = books]_vars

\* a search in capitals found one registered Book and left another out
C10_Witness ==
    /\ last.op = "search_title"
    /\ last.search_string = <<"B", "A">>
    /\ Len(last.result) = 1
    /\ Len(books) = 2
    /\ heap[last.result[1]].title = <<"b", "a">>
\* C12: a successful add_book keeps every Book registered before under its
\* own identifier with unchanged attributes and makes the registry one entry
\* longer, and every key of the registry is the bid of the Book stored under
\* it; also when the Book added is another object with a registered bid.
C12_AddReplacesNothing ==
    [][\A book \in Refs :
         (last'.op = "add_book" /\ last'.book = book /\ last'.err = "none") =>
            /\ \A i \in 1..Len(books) :
                 /\ DictHasKey(books', books[i].k)
                 /\ DictGet(books', books[i].k) = books[i].v
                 /\ heap'[books[i].v] = heap[books[i].v]
            /\ Len(books') = Len(books) + 1
            /\ \A i \in 1..Len(books') : books'[i].k = heap'[books'[i].v].bid]_vars

\* the registered Books other than book are under the same keys with the
\* same attributes after the step
OthersUnchanged(book) ==
    \A i \in 1..Len(books) :
        books[i].v # book =>
            /\ DictHasKey(books', books[i].k)
            /\ heap'[DictGet(books', books[i].k)] = heap[books[i].v]

\* C14: lend_book and return_book on one Book, raising or not, leave the set
\* of registered identifiers and every other registered Book unchanged; a
\* delete_book of a registered Book that does not raise removes the entry of
\* that Book and no other.
C14_Frame ==
    [][\A book \in Refs :
         /\ (last'.book = book /\ last'.op \in {"lend_book", "return_book"}) =>
               (DictKeys(books') = DictKeys(books) /\ OthersUnchanged(book))
         /\ (/\ last'.book = book /\ last'.op = "delete_book"
             /\ last'.err = "none" /\ Registered(book)) =>
               /\ DictKeys(books') = DictKeys(books) \ {heap[book].bid}
               /\ ~InValues(books', book)
               /\ Len(books') = Len(books) - 1
               /\ OthersUnchanged(book)]_vars

\* a registered Book was deleted and the Book registered before it, lent,
\* is still there
C14_Witness ==
    /\ last.op = "delete_book" /\ last.err = "none"
    /\ ~Registered(last.book)
    /\ Len(books) = 1
    /\ books[1].v < last.book
    /\ heap[books[1].v].is_lent
\* the heap and registry of process p
RegOf(p) == IF p = sess.run THEN [heap |-> heap, books |-> books] ELSE sess.parked

\* the identifiers of a file and the fields stored under each
FileView(f) == [key \in DictKeys(f) |-> DictGet(f, key)]

\* C11: when two sessions both load the file before either saves and each
\* then runs its command and saves, no save raises and the file holds the
\* registry of the session that saved last, identifier by identifier and
\* field by field as save writes them: what the other session did is lost.
C11_LastWriteWins ==
    (sess.pc = <<"closed", "closed">> /\ sess.early = <<TRUE, TRUE>>) =>
        LET reg == RegOf(sess.saves[2])
        IN /\ last.op = "save" /\ last.err = "none"
           /\ DictKeys(file) = DictKeys(reg.books)
           /\ \A key \in DictKeys(file) :
                DictGet(file, key) = to_dict(reg.heap[DictGet(reg.books, key)])

\* both sessions loaded first; the one that saved first had added a Book,
\* which the file does not hold
C11_Witness ==
    /\ sess.pc = <<"closed", "closed">> /\ sess.early = <<TRUE, TRUE>>
    /\ sess.why = <<"none", "none">>
    /\ LET first == RegOf(sess.saves[1])
       IN /\ Len(first.books) = Len(sess.snap[1]) + 1
          /\ \E key \in DictKeys(first.books) : ~DictHasKey(file, key)
    /\ \E key \in DictKeys(file) :
          DictGet(file, key).is_lent /\ ~DictGet(sess.snap[1], key).is_lent

\* C13: a command session whose call fails (identifier or title not found,
\* lend_book of a lent Book, return_book of an available Book) and which
\* then saves leaves in the file the identifiers and the fields of every
\* book that its load read.
C13_FailedCommandKeepsFile ==
    [][\A p \in Procs :
         (/\ sess.pc[p] = "ran" /\ sess'.pc[p] = "closed"
          /\ sess.why[p] \in {"SystemExit", "KeyError"}) =>
            FileView(file') = FileView(sess.snap[p])]_vars

\* a lend_book of a lent Book was refused, the session saved, and the file
\* still holds the lent Book as before
C13_Witness ==
    /\ last.op = "save"
    /\ \E p \in Procs :
          /\ sess.pc[p] = "closed" /\ sess.why[p] = "KeyError"
          /\ sess.saves = <<p>>
          /\ sess.snap[p] # EmptyDict
          /\ FileView(file) = FileView(sess.snap[p])
          /\ \E key \in DictKeys(file) : DictGet(file, key).is_lent

====
